---- MODULE Spec2Model ----
(***************************************************************************)
(* Model of rplugin/python2/vim-ghosttext.py: the WebSocket frame codec    *)
(* (class Frame), the per-connection worker (WebSocketServer), the         *)
(* discovery HTTP server (WebRequestHandler, MyHTTPServer) and the editor  *)
(* entry points GhostStart, GhostStop and GhostNotify.                     *)
(***************************************************************************)
EXTENDS Integers, Sequences, FiniteSets, TLC

(***************************************************************************)
(* Part 1.  Frame codec (class Frame).  A byte is a number in 0..255 and   *)
(* a message is a sequence of bytes, 1-indexed here where Python is        *)
(* 0-indexed.                                                              *)
(***************************************************************************)

\* Frame.TEXT and Frame.CLOSE
TEXT == 1
CLOSE == 8

\* Python integers are unbounded and TLC's are not: every length at or
\* above HugeLen stands for "larger than any buffer the model builds".
HugeLen == 1000000

\* (acc << 8) | b on a Python integer, saturating at HugeLen
ShiftOr(acc, b) == IF acc * 256 + b >= HugeLen THEN HugeLen ELSE acc * 256 + b

RECURSIVE XorBits(_, _, _)
\* a ^ b on the low n bits
XorBits(a, b, n) ==
    IF n = 0 THEN 0
    ELSE (((a % 2) + (b % 2)) % 2) + 2 * XorBits(a \div 2, b \div 2, n - 1)

\* incoming_octet ^ mask_octet
Xor8(a, b) == XorBits(a, b, 8)

\* data[from:] of a Python bytearray, from 0-indexed
SliceFrom(data, from) ==
    IF from >= Len(data) THEN << >> ELSE SubSeq(data, from + 1, Len(data))

\* for i in range(n): acc = (acc << 8) | data[i + next_byte]
RECURSIVE ReadBE(_, _, _, _)
ReadBE(data, next_byte, n, acc) ==
    IF n = 0 THEN acc
    ELSE ReadBE(data, next_byte + 1, n - 1, ShiftOr(acc, data[next_byte + 1]))

\* the 126 branch of Frame._parse: payload_len is reset to 0, then 2 bytes
ParseLen16(data) == ReadBE(data, 2, 2, 0)

\* the 127 branch of Frame._parse: payload_len is not reset, it still holds
\* the 7-bit value 127 when the 8 bytes are shifted in
ParseLen64(data) == ReadBE(data, 2, 8, 127)

\* for i in range(4): mask_key |= data[i + next_byte] << (8 * i)
ParseMaskKey(data, next_byte) ==
    data[next_byte + 1] + 256 * data[next_byte + 2]
        + 65536 * data[next_byte + 3] + 16777216 * data[next_byte + 4]

\* (mask_key >> (j * 8)) & 0xff
MaskOctet(mask_key, j) ==
    CASE j = 0 -> mask_key % 256
      [] j = 1 -> (mask_key \div 256) % 256
      [] j = 2 -> (mask_key \div 65536) % 256
      [] OTHER -> (mask_key \div 16777216) % 256

\* The fields a Frame object ends with; raised names the exception that left
\* the constructor, "" when it returned.
FrameObj(raised, fin, opcode, mask, mask_key, payload_len, payload, closed, data) ==
    [raised |-> raised, fin |-> fin, opcode |-> opcode, mask |-> mask,
     mask_key |-> mask_key, payload_len |-> payload_len, payload |-> payload,
     closed |-> closed, data |-> data]

RaisedFrame(exc) == FrameObj(exc, FALSE, 0, FALSE, 0, 0, << >>, FALSE, << >>)

\* Frame(data=...): __init__ with data given runs _parse
FrameParse(data) ==
    IF Len(data) < 2 THEN RaisedFrame("IndexError")
    ELSE
    LET fin      == (data[1] \div 128) % 2 = 1
        opcode   == data[1] % 16
        mask     == (data[2] \div 128) % 2 = 1
        len7     == data[2] % 128
        extBytes == IF len7 = 126 THEN 2 ELSE IF len7 = 127 THEN 8 ELSE 0
        keyBytes == IF mask THEN 4 ELSE 0
    IN  IF Len(data) < 2 + extBytes + keyBytes THEN RaisedFrame("IndexError")
        ELSE
        LET payload_len == IF len7 = 126 THEN ParseLen16(data)
                           ELSE IF len7 = 127 THEN ParseLen64(data)
                           ELSE len7
            mask_key  == IF mask THEN ParseMaskKey(data, 2 + extBytes) ELSE 0
            next_byte == 2 + extBytes + keyBytes
            rest      == SliceFrom(data, next_byte)
        IN  IF opcode = TEXT THEN
                IF payload_len >= HugeLen
                THEN RaisedFrame("OverflowError")
                ELSE IF payload_len > Len(rest)
                THEN RaisedFrame("IndexError")
                ELSE FrameObj("", fin, opcode, mask, mask_key, payload_len,
                         [i \in 1..payload_len |->
                             Xor8(rest[i], MaskOctet(mask_key, (i - 1) % 4))],
                         FALSE, data)
            ELSE IF opcode = CLOSE THEN
                FrameObj("", fin, opcode, mask, mask_key, payload_len, rest, TRUE, data)
            ELSE RaisedFrame("Exception")

\* for i in reversed(range(n)): data.append((payload_len >> (i * 8)) & 0xff)
RECURSIVE WriteBE(_, _)
WriteBE(len, n) ==
    IF n = 0 THEN << >>
    ELSE WriteBE(len \div 256, n - 1) \o << len % 256 >>

\* mutant of FrameSetData: a mask argument is accepted, the mask bit is written
\* and the payload follows as it is
FrameSetData_NoRaise(fin, opcode, payload, mask) ==
    LET payload_len == Len(payload)
        b0   == (fin % 2) * 128 + (opcode % 16)
        mbit == (mask % 2) * 128
        hdr  == IF payload_len >= 126
                THEN IF payload_len < 65536
                     THEN << b0, mbit + 126 >> \o WriteBE(payload_len, 2)
                     ELSE << b0, mbit + 127 >> \o WriteBE(payload_len, 8)
                ELSE << b0, mbit + (payload_len % 128) >>
    IN  FrameObj("", fin = 1, opcode, mask # 0, 0, payload_len, payload, FALSE,
                 hdr \o payload)

\* Frame(fin, opcode, payload, mask): __init__ without data runs _set_data
FrameSetData(fin, opcode, payload, mask) ==
    LET payload_len == Len(payload)
        b0   == (fin % 2) * 128 + (opcode % 16)
        mbit == (mask % 2) * 128
        hdr  == IF payload_len >= 126
                THEN IF payload_len < 65536
                     THEN << b0, mbit + 126 >> \o WriteBE(payload_len, 2)
                     ELSE << b0, mbit + 127 >> \o WriteBE(payload_len, 8)
                ELSE << b0, mbit + (payload_len % 128) >>
    IN  IF mask # 0
        THEN FrameObj("Exception", fin = 1, opcode, TRUE, 0, payload_len, payload, FALSE, hdr)
        ELSE FrameObj("", fin = 1, opcode, FALSE, 0, payload_len, payload, FALSE,
                      hdr \o payload)

(***************************************************************************)
(* The codec run on its own: a peer builds a frame as the protocol         *)
(* prescribes, Frame(data=...) decodes it, and Frame(opcode, payload)      *)
(* encodes what was decoded.                                               *)
(***************************************************************************)

VARIABLES
    c_src,      \* what the peer framed: fin, opcode, mask, key, payload length
    c_frame,    \* the Frame decoded from the peer's bytes
    c_out,      \* the Frame encoded from c_frame's opcode and payload
    c_pc        \* "input", "decoded", "raised", "encoded" or "masked"

codecVars == << c_src, c_frame, c_out, c_pc >>

\* longest of the short payloads the peer frames
MaxSmall == 2

\* payload bytes of a given length
Fill(n) == [i \in 1..n |-> 65 + (i % 3)]

\* lengths on both sides of each threshold of the length encoding
PayloadLens == (0..MaxSmall) \cup {125, 126, 127, 65536}

\* the 4-byte masking keys the peer draws, as the integer _parse assembles
PeerKeys == {67305985}   \* bytes 1, 2, 3, 4

\* The frame a protocol-conforming peer writes: minimal length form, and the
\* payload XORed with key byte i mod 4 when masked.
PeerFrame(fin, opcode, mask, key, payload) ==
    LET n    == Len(payload)
        b0   == fin * 128 + opcode
        mbit == mask * 128
        hdr  == IF n < 126 THEN << b0, mbit + n >>
                ELSE IF n < 65536 THEN << b0, mbit + 126 >> \o WriteBE(n, 2)
                ELSE << b0, mbit + 127 >> \o WriteBE(n, 8)
        keyb == IF mask = 1 THEN [j \in 1..4 |-> MaskOctet(key, j - 1)] ELSE << >>
        body == IF mask = 1
                THEN [i \in 1..n |-> Xor8(payload[i], MaskOctet(key, (i - 1) % 4))]
                ELSE payload
    IN  hdr \o keyb \o body

NoFrame == RaisedFrame("none")

CodecSources ==
    [fin : {0, 1}, opcode : {TEXT, CLOSE, 9}, mask : {0, 1}, key : PeerKeys,
     len : PayloadLens]

\* the payload the peer framed
c_payload == Fill(c_src.len)

\* the bytes handed to Frame(data=...)
c_in == PeerFrame(c_src.fin, c_src.opcode, c_src.mask, c_src.key, c_payload)

CodecInit ==
    /\ c_src \in CodecSources
    /\ c_frame = NoFrame
    /\ c_out = NoFrame
    /\ c_pc = "input"

\* frame = Frame(data=bytearray(recv))
CodecDecode ==
    /\ c_pc = "input"
    /\ c_frame' = FrameParse(c_in)
    /\ c_pc' = IF c_frame'.raised = "" THEN "decoded" ELSE "raised"
    /\ UNCHANGED << c_src, c_out >>

\* Frame(opcode=frame.opcode, payload=frame.payload)
CodecEncode ==
    /\ c_pc = "decoded"
    /\ c_out' = FrameSetData(1, c_frame.opcode, c_frame.payload, 0)
    /\ c_pc' = "encoded"
    /\ UNCHANGED << c_src, c_frame >>

\* the mask arguments an encode is tried with: bit 0 set, and bit 0 clear
MaskArgs == {1, 2}

\* Frame(opcode=frame.opcode, payload=frame.payload, mask=m) with m set
CodecEncodeMasked(m) ==
    /\ c_pc = "decoded"
    /\ c_out' = FrameSetData(1, c_frame.opcode, c_frame.payload, m)
    /\ c_pc' = "masked"
    /\ UNCHANGED << c_src, c_frame >>

(***************************************************************************)
(* Part 2.  The server: the editor thread (GhostStart, GhostStop,          *)
(* GhostNotify), one discovery HTTP thread per MyHTTPServer and one worker *)
(* thread per WebSocketServer.  Every blocking call (Lock.acquire,         *)
(* Event.wait, accept, recv) and every access to something another thread  *)
(* or the peer can see is a step of its own.                               *)
(***************************************************************************)

\* MyHTTPServer objects GhostStart may create in a run
MaxStarts == 2
\* WebSocketServer objects do_GET may create in a run
MaxWorkers == 2
\* documents are numbered 0..MaxText
MaxText == 1

Servers == 1..MaxStarts
Workers == 1..MaxWorkers
Texts   == 0..MaxText

\* the holder of a threading.Lock
Free      == << "free", 0 >>
Editor    == << "editor", 0 >>
Http(g)   == << "http", g >>
Worker(w) == << "worker", w >>

\* json.dumps(data) of _send_text, reduced to its 'text' member: {"t":<text>}
JsonDumps(text) == << 123, 116, 48 + text, 125 >>

\* json.loads(string): the request, with its 'text' member when it has one
JsonLoads(bytes) ==
    IF Len(bytes) = 4 /\ bytes[2] = 116
    THEN [hasText |-> TRUE, text |-> bytes[3] - 48]
    ELSE [hasText |-> FALSE, text |-> 0]

\* What a GhostText peer may write on an upgraded connection: a TEXT frame with
\* a document, a TEXT frame whose JSON has no 'text', a CLOSE frame, a PING.
PeerMessages ==
    { PeerFrame(1, TEXT, 1, k, JsonDumps(t)) : k \in PeerKeys, t \in Texts }
    \cup { PeerFrame(1, TEXT, 1, k, << 123, 125 >>) : k \in PeerKeys }
    \cup { PeerFrame(1, CLOSE, 1, k, << >>) : k \in PeerKeys }
    \cup { PeerFrame(1, 9, 1, k, << >>) : k \in PeerKeys }

\* recv is None
None == << >>

VARIABLES
    HTTPSERVER,   \* the global: 0 for None, else the MyHTTPServer object
    nServers,     \* MyHTTPServer objects created so far
    vim_lock,     \* per server: holder of MyHTTPServer.vim_lock
    done,         \* per server: MyHTTPServer.done is set
    websocks,     \* per server: MyHTTPServer.websocks, as worker ids
    h_pc,         \* per server: where its serve_forever thread is
    h_sock,       \* per server: do_GET's local sock, 0 outside do_GET
    nWorkers,     \* WebSocketServer objects created so far
    w_srv,        \* per worker: the server whose lock and done it was given
    w_pc,         \* per worker: where its serve_forever thread is
    valid,        \* per worker: WebSocketServer.valid
    conn,         \* per worker: "none" (self._conn is None) or "open"
    sock,         \* per worker: the accepted socket: "unconnected", "open", "closed"
    to_thread,    \* per worker: the to_thread Event is set
    from_thread,  \* per worker: the from_thread Event is set
    w_recv,       \* per worker: the message being handled, None when none
    w_text,       \* per worker: _update_from_vim's text
    doc,          \* vim.current.buffer
    autocmds,     \* TextChanged autocmds installed
    e_pc,         \* where the editor thread is
    e_i,          \* GhostNotify: index of its for loops
    found,        \* GhostNotify: found
    wait,         \* GhostNotify: wait
    echo,         \* the message the entry point in progress has surfaced
    \* history, read by no action:
    errors,       \* logging.error lines of the GhostNotify call in progress
    pending,      \* per worker: push requests raised and not yet completed
    stage,        \* per worker: the last step of the push protocol taken
    nText,        \* per worker: TEXT frames written since GhostNotify last returned
    written,      \* per worker: what it wrote to its socket since its last receive
    readDoc,      \* per worker: the document it read for the push in progress
    nClose,       \* per worker: CLOSE frames written to its socket
    ended,        \* per worker: why the loop was left
    w_eof         \* per worker: its last step was a receive that met end-of-stream

srvVars  == << HTTPSERVER, nServers, vim_lock, done, websocks, h_pc, h_sock >>
wrkVars  == << nWorkers, w_srv, w_pc, valid, conn, sock, to_thread,
               from_thread, w_recv, w_text >>
edVars   == << doc, autocmds, e_pc, e_i, found, wait, echo >>
histVars == << errors, pending, stage, nText, written, readDoc, nClose, ended,
              w_eof >>
vars     == << srvVars, wrkVars, edVars, histVars, codecVars >>

ServerInit ==
    /\ HTTPSERVER = 0
    /\ nServers = 0
    /\ vim_lock = [g \in Servers |-> Free]
    /\ done = [g \in Servers |-> FALSE]
    /\ websocks = [g \in Servers |-> << >>]
    /\ h_pc = [g \in Servers |-> "unborn"]
    /\ h_sock = [g \in Servers |-> 0]
    /\ nWorkers = 0
    /\ w_srv = [w \in Workers |-> 0]
    /\ w_pc = [w \in Workers |-> "unborn"]
    /\ valid = [w \in Workers |-> FALSE]
    /\ conn = [w \in Workers |-> "none"]
    /\ sock = [w \in Workers |-> "unconnected"]
    /\ to_thread = [w \in Workers |-> FALSE]
    /\ from_thread = [w \in Workers |-> FALSE]
    /\ w_recv = [w \in Workers |-> None]
    /\ w_text = [w \in Workers |-> 0]
    /\ doc \in Texts
    /\ autocmds = 0
    /\ e_pc = "idle"
    /\ e_i = 0
    /\ found = 0
    /\ wait = << >>
    /\ echo = ""
    /\ errors = {}
    /\ pending = [w \in Workers |-> 0]
    /\ stage = [w \in Workers |-> "idle"]
    /\ nText = [w \in Workers |-> 0]
    /\ written = [w \in Workers |-> None]
    /\ readDoc = [w \in Workers |-> 0]
    /\ nClose = [w \in Workers |-> 0]
    /\ ended = [w \in Workers |-> ""]
    /\ w_eof = [w \in Workers |-> FALSE]

\* the codec's own run is not part of the server's
CodecOff ==
    /\ c_src = [fin |-> 1, opcode |-> TEXT, mask |-> 0, key |-> 0, len |-> 0]
    /\ c_frame = NoFrame
    /\ c_out = NoFrame
    /\ c_pc = "off"

Init == ServerInit /\ CodecOff

(***************************************************************************)
(* The editor thread.  Vim runs commands and autocmds one at a time, so    *)
(* GhostStart, GhostStop and GhostNotify never overlap each other: e_pc is *)
(* "idle" between two calls.                                               *)
(***************************************************************************)

\* mutant of GhostStart: a server is created whether or not one is running
GhostStart_NoTest ==
    /\ e_pc = "idle"
    /\ nServers < MaxStarts
    /\ nServers' = nServers + 1
    /\ HTTPSERVER' = nServers + 1
    /\ h_pc' = [h_pc EXCEPT ![nServers + 1] = "idle"]
    /\ e_pc' = "start_lock"
    /\ echo' = echo
    /\ UNCHANGED << vim_lock, done, websocks, h_sock, wrkVars, doc, autocmds,
                    e_i, found, wait, histVars, codecVars >>

\* GhostStart, up to the blocking vim_lock.acquire(); the else branch only
\* echoes
GhostStart ==
    /\ e_pc = "idle"
    /\ IF HTTPSERVER = 0
       THEN /\ nServers < MaxStarts
            /\ nServers' = nServers + 1
            /\ HTTPSERVER' = nServers + 1
            /\ h_pc' = [h_pc EXCEPT ![nServers + 1] = "idle"]
            /\ e_pc' = "start_lock"
            /\ echo' = echo
       ELSE /\ echo' = "Server is already running"
            /\ e_pc' = "start_return"
            /\ UNCHANGED << nServers, HTTPSERVER, h_pc >>
    /\ UNCHANGED << vim_lock, done, websocks, h_sock, wrkVars, doc, autocmds,
                    e_i, found, wait, histVars, codecVars >>

\* GhostStart: HTTPSERVER.vim_lock.acquire() returns
GhostStartAcquire ==
    /\ e_pc = "start_lock"
    /\ vim_lock[HTTPSERVER] = Free
    /\ vim_lock' = [vim_lock EXCEPT ![HTTPSERVER] = Editor]
    /\ e_pc' = "start_unlock"
    /\ UNCHANGED << HTTPSERVER, nServers, done, websocks, h_pc, h_sock, wrkVars,
                    doc, autocmds, e_i, found, wait, echo, histVars, codecVars >>

\* GhostStart: the echo, the two autocmd commands and vim_lock.release()
GhostStartRelease ==
    /\ e_pc = "start_unlock"
    /\ echo' = "Starting server"
    /\ autocmds' = autocmds + 1
    /\ vim_lock' = [vim_lock EXCEPT ![HTTPSERVER] = Free]
    /\ e_pc' = "start_return"
    /\ UNCHANGED << HTTPSERVER, nServers, done, websocks, h_pc, h_sock, wrkVars,
                    doc, e_i, found, wait, histVars, codecVars >>

\* GhostStop, up to the blocking vim_lock.acquire(); the first branch only
\* echoes
GhostStop ==
    /\ e_pc = "idle"
    /\ IF HTTPSERVER = 0
       THEN /\ echo' = "Server is not running"
            /\ e_pc' = "stop_return"
       ELSE /\ e_pc' = "stop_lock"
            /\ echo' = echo
    /\ UNCHANGED << srvVars, wrkVars, doc, autocmds, e_i, found, wait, histVars,
                    codecVars >>

\* GhostStop: HTTPSERVER.vim_lock.acquire() returns
GhostStopAcquire ==
    /\ e_pc = "stop_lock"
    /\ vim_lock[HTTPSERVER] = Free
    /\ vim_lock' = [vim_lock EXCEPT ![HTTPSERVER] = Editor]
    /\ e_pc' = "stop_unlock"
    /\ UNCHANGED << HTTPSERVER, nServers, done, websocks, h_pc, h_sock, wrkVars,
                    doc, autocmds, e_i, found, wait, echo, histVars, codecVars >>

\* GhostStop: the echo, vim_lock.release() and HTTPSERVER.done.set()
GhostStopRelease ==
    /\ e_pc = "stop_unlock"
    /\ echo' = "Stopping server"
    /\ vim_lock' = [vim_lock EXCEPT ![HTTPSERVER] = Free]
    /\ done' = [done EXCEPT ![HTTPSERVER] = TRUE]
    /\ e_pc' = "stop_shutdown"
    /\ UNCHANGED << HTTPSERVER, nServers, websocks, h_pc, h_sock, wrkVars,
                    doc, autocmds, e_i, found, wait, histVars, codecVars >>

\* GhostStop: HTTPSERVER.shutdown() returns once the discovery thread has left
\* its serve_forever loop, which it does between two requests; then
\* HTTPSERVER = None, which leaves the server and its registry unreferenced
GhostStopShutdown ==
    /\ e_pc = "stop_shutdown"
    /\ h_pc[HTTPSERVER] = "idle"
    /\ h_pc' = [h_pc EXCEPT ![HTTPSERVER] = "stopped"]
    /\ websocks' = [websocks EXCEPT ![HTTPSERVER] = << >>]
    /\ HTTPSERVER' = 0
    /\ e_pc' = "stop_return"
    /\ UNCHANGED << nServers, vim_lock, done, h_sock, wrkVars,
                    doc, autocmds, e_i, found, wait, echo, histVars, codecVars >>


\* mutant of Signaled: every registry entry is signaled, valid or not
Signaled_All(ws) == TRUE

\* GhostNotify's test of a registry entry: if ws['sock'].valid
Signaled(ws) == valid[ws]

\* GhostNotify up to its first for loop; with no server it only echoes
NotifyCall ==
    IF HTTPSERVER = 0
    THEN /\ echo' = "Server is not running"
         /\ e_pc' = "notify_return"
         /\ UNCHANGED << e_i, found, wait >>
    ELSE /\ found' = 0
         /\ wait' = << >>
         /\ e_i' = 1
         /\ e_pc' = "notify_for"
         /\ echo' = echo

\* the editor runs GhostNotify without a change of the document (a second
\* autocmd, or :python GhostNotify())
GhostNotify ==
    /\ e_pc = "idle"
    /\ NotifyCall
    /\ UNCHANGED << srvVars, wrkVars, doc, autocmds, histVars, codecVars >>

\* the user changes the document; TextChanged runs GhostNotify when the
\* autocmd is installed
UserEdit(t) ==
    /\ e_pc = "idle"
    /\ t # doc
    /\ doc' = t
    /\ IF autocmds > 0
       THEN NotifyCall
       ELSE UNCHANGED << e_pc, e_i, found, wait, echo >>
    /\ UNCHANGED << srvVars, wrkVars, autocmds, histVars, codecVars >>

\* one round of: for ws in HTTPSERVER.websocks
GhostNotifyFor ==
    /\ e_pc = "notify_for"
    /\ IF e_i <= Len(websocks[HTTPSERVER])
       THEN LET ws == websocks[HTTPSERVER][e_i] IN
            /\ e_i' = e_i + 1
            /\ e_pc' = e_pc
            /\ IF Signaled(ws)
               THEN /\ errors' = errors
                        \cup (IF to_thread[ws] THEN {"To event is already set"} ELSE {})
                        \cup (IF from_thread[ws] THEN {"From event is already set"} ELSE {})
                    /\ found' = found + 1
                    /\ to_thread' = [to_thread EXCEPT ![ws] = TRUE]
                    /\ wait' = Append(wait, ws)
                    /\ pending' = [pending EXCEPT ![ws] = @ + 1]
                    /\ stage' = [stage EXCEPT ![ws] = "requested"]
               ELSE UNCHANGED << errors, found, to_thread, wait, pending, stage >>
       ELSE /\ e_i' = 1
            /\ e_pc' = "notify_wait"
            /\ UNCHANGED << errors, found, to_thread, wait, pending, stage >>
    /\ UNCHANGED << srvVars, nWorkers, w_srv, w_pc, valid, conn, sock,
                    from_thread, w_recv, w_text, doc, autocmds, echo,
                    nText, written, readDoc, nClose, ended, codecVars, w_eof >>


\* mutant of GhostNotifyWait: from_thread is cleared without waiting for it
GhostNotifyWait_NoWait ==
    /\ e_pc = "notify_wait"
    /\ IF e_i <= Len(wait)
       THEN LET ws == wait[e_i] IN
            /\ from_thread' = [from_thread EXCEPT ![ws] = FALSE]
            /\ pending' = [pending EXCEPT ![ws] = @ - 1]
            /\ stage' = [stage EXCEPT ![ws] = "idle"]
            /\ readDoc' = [readDoc EXCEPT ![ws] = 0]
            /\ e_i' = e_i + 1
            /\ UNCHANGED << e_pc, errors >>
       ELSE /\ errors' = errors
                \cup (IF found = 0 THEN {"No valid websockets found"} ELSE {})
                \cup (IF found > 1 THEN {"Multiple valid websockets found"} ELSE {})
            /\ e_pc' = "notify_end"
            /\ UNCHANGED << from_thread, pending, stage, readDoc, e_i >>
    /\ UNCHANGED << srvVars, nWorkers, w_srv, w_pc, valid, conn, sock,
                    to_thread, w_recv, w_text, doc, autocmds, found, wait, echo,
                    nText, written, nClose, ended, codecVars, w_eof >>

\* one round of: for ws in wait, whose from_thread.wait() blocks and is
\* followed by from_thread.clear(); after the last round, the two tests of found
GhostNotifyWait ==
    /\ e_pc = "notify_wait"
    /\ IF e_i <= Len(wait)
       THEN LET ws == wait[e_i] IN
            /\ from_thread[ws]
            /\ from_thread' = [from_thread EXCEPT ![ws] = FALSE]
            /\ pending' = [pending EXCEPT ![ws] = @ - 1]
            /\ stage' = [stage EXCEPT ![ws] = "idle"]
            /\ readDoc' = [readDoc EXCEPT ![ws] = 0]
            /\ e_i' = e_i + 1
            /\ UNCHANGED << e_pc, errors >>
       ELSE /\ errors' = errors
                \cup (IF found = 0 THEN {"No valid websockets found"} ELSE {})
                \cup (IF found > 1 THEN {"Multiple valid websockets found"} ELSE {})
            /\ e_pc' = "notify_end"
            /\ UNCHANGED << from_thread, pending, stage, readDoc, e_i >>
    /\ UNCHANGED << srvVars, nWorkers, w_srv, w_pc, valid, conn, sock,
                    to_thread, w_recv, w_text, doc, autocmds, found, wait, echo,
                    nText, written, nClose, ended, codecVars, w_eof >>

\* the entry point returns to the editor: its locals, its message and its log
\* lines are of no further use
EditorReturn ==
    /\ e_pc \in {"start_return", "stop_return", "notify_return", "notify_end"}
    /\ e_pc' = "idle"
    /\ e_i' = 0
    /\ found' = 0
    /\ wait' = << >>
    /\ echo' = ""
    /\ errors' = {}
    /\ nText' = [w \in Workers |-> 0]
    /\ UNCHANGED << srvVars, wrkVars, doc, autocmds, pending, stage, written,
                    readDoc, nClose, ended, codecVars, w_eof >>

(***************************************************************************)
(* The discovery thread of server g: BaseHTTPServer's serve_forever, which *)
(* handles one GET at a time with WebRequestHandler.do_GET.                *)
(***************************************************************************)

\* a GET arrives: _set_headers -> send_response -> log_message, up to and,
\* when the lock is free, including vim_lock.acquire()
HttpRequest(g) ==
    /\ h_pc[g] = "idle"
    /\ nWorkers < MaxWorkers
    /\ IF vim_lock[g] = Free
       THEN /\ vim_lock' = [vim_lock EXCEPT ![g] = Http(g)]
            /\ h_pc' = [h_pc EXCEPT ![g] = "log_unlock"]
       ELSE /\ h_pc' = [h_pc EXCEPT ![g] = "log_lock"]
            /\ UNCHANGED vim_lock
    /\ UNCHANGED << HTTPSERVER, nServers, done, websocks, h_sock, wrkVars,
                    edVars, histVars, codecVars >>

\* log_message: vim_lock.acquire() returns
HttpLogAcquire(g) ==
    /\ h_pc[g] = "log_lock"
    /\ vim_lock[g] = Free
    /\ vim_lock' = [vim_lock EXCEPT ![g] = Http(g)]
    /\ h_pc' = [h_pc EXCEPT ![g] = "log_unlock"]
    /\ UNCHANGED << HTTPSERVER, nServers, done, websocks, h_sock, wrkVars,
                    edVars, histVars, codecVars >>

\* log_message: the echo and vim_lock.release(); then do_GET up to
\* WebSocketServer.startwebsocket, which builds the worker (valid False, its
\* two Events clear) and starts its thread
HttpStartWebsocket(g) ==
    /\ h_pc[g] = "log_unlock"
    /\ vim_lock' = [vim_lock EXCEPT ![g] = Free]
    /\ nWorkers' = nWorkers + 1
    /\ h_sock' = [h_sock EXCEPT ![g] = nWorkers + 1]
    /\ w_srv' = [w_srv EXCEPT ![nWorkers + 1] = g]
    /\ w_pc' = [w_pc EXCEPT ![nWorkers + 1] = "accept"]
    /\ h_pc' = [h_pc EXCEPT ![g] = "append"]
    /\ UNCHANGED << HTTPSERVER, nServers, done, websocks, valid, conn, sock,
                    to_thread, from_thread, w_recv, w_text, edVars, histVars,
                    codecVars >>

\* mutant of HttpAppend: the new entry replaces the registry
HttpAppend_Replace(g) ==
    /\ h_pc[g] = "append"
    /\ websocks' = [websocks EXCEPT ![g] = << h_sock[g] >>]
    /\ h_sock' = [h_sock EXCEPT ![g] = 0]
    /\ h_pc' = [h_pc EXCEPT ![g] = "idle"]
    /\ UNCHANGED << HTTPSERVER, nServers, vim_lock, done, wrkVars, edVars,
                    histVars, codecVars >>

\* do_GET: self.server.websocks.append(...), then the response is written
HttpAppend(g) ==
    /\ h_pc[g] = "append"
    /\ websocks' = [websocks EXCEPT ![g] = Append(@, h_sock[g])]
    /\ h_sock' = [h_sock EXCEPT ![g] = 0]
    /\ h_pc' = [h_pc EXCEPT ![g] = "idle"]
    /\ UNCHANGED << HTTPSERVER, nServers, vim_lock, done, wrkVars, edVars,
                    histVars, codecVars >>

(***************************************************************************)
(* The thread of worker w: WebSocketServer.serve_forever.  w_pc is "first" *)
(* at the while test while loop is 0 (the pass that makes loop == 1), and  *)
(* "loop" at the while test of every later pass.                           *)
(***************************************************************************)

\* the 101 response _handshake writes, reduced to its first bytes
Http101 == << 72, 84, 84, 80 >>

\* self._conn, self._addr = self._sock.accept() returns: a peer connected
WorkerAccept(w) ==
    /\ w_pc[w] = "accept"
    /\ conn' = [conn EXCEPT ![w] = "open"]
    /\ sock' = [sock EXCEPT ![w] = "open"]
    /\ w_pc' = [w_pc EXCEPT ![w] = "handshake"]
    /\ UNCHANGED << srvVars, nWorkers, w_srv, valid, to_thread, from_thread,
                    w_recv, w_text, edVars, histVars, codecVars >>

\* _handshake: the blocking _recv() returns the request; without a
\* Sec-WebSocket-Key line the bare raise ends the thread, else the 101
\* response is written
WorkerHandshake(w, hasKey) ==
    /\ w_pc[w] = "handshake"
    /\ IF hasKey
       THEN /\ written' = [written EXCEPT ![w] = Http101]
            /\ w_pc' = [w_pc EXCEPT ![w] = "first"]
            /\ ended' = ended
       ELSE /\ w_pc' = [w_pc EXCEPT ![w] = "dead"]
            /\ ended' = [ended EXCEPT ![w] = "handshake"]
            /\ written' = written
    /\ UNCHANGED << srvVars, nWorkers, w_srv, valid, conn, sock, to_thread,
                    from_thread, w_recv, w_text, edVars, errors, pending, stage,
                    nText, readDoc, nClose, codecVars, w_eof >>

\* where serve_forever goes with a message it received: Frame(data=...) raises,
\* or the frame is a CLOSE frame, or its payload goes to _update_to_vim
AfterRecv(m) ==
    LET frame == FrameParse(m) IN
    IF frame.raised # "" THEN "dead"
    ELSE IF frame.closed THEN "close_lock"
    ELSE "tovim_lock"

\* where serve_forever goes when nothing was received: on the first pass the
\* bounded wait timed out and the loop is left, on a later pass the poll found
\* nothing
AfterNothing(first) == IF first THEN "finish" ELSE "push"

\* mutant of ValidAfterRecv: valid is reset by a receive of a later pass
ValidAfterRecv_Reset(w, first) == first

\* self.valid after a successful receive: set on the first pass
ValidAfterRecv(w, first) == IF first THEN TRUE ELSE valid[w]

\* where serve_forever goes at the bottom of a pass: if not self.valid: break
LoopBottom(w) == IF valid[w] THEN "loop" ELSE "finish"

\* conn.recv returned '': the peer has ended the stream (256 is no byte)
Eof == << 256 >>

\* what _recv returns for what conn.recv gave: None when nothing came, and
\* None as well when conn.recv returned '' (elif len(string) == 0 in _recv,
\* a ret without length in _recv_timeout)
Recv(string) == IF string = Eof THEN None ELSE string

\* One pass from the while test to the end of "if recv is not None": the test
\* of done, the receive (bounded wait on the first pass, non-blocking poll
\* afterwards; string = None when nothing arrived) and the decoding of the
\* frame.
WorkerIterate(w, string) ==
    /\ w_pc[w] \in {"first", "loop"}
    /\ LET first == w_pc[w] = "first"
           m     == Recv(string)
       IN
       IF done[w_srv[w]]
       THEN /\ string = None
            /\ w_pc' = [w_pc EXCEPT ![w] = "finish"]
            /\ ended' = [ended EXCEPT ![w] = "shutdown"]
            /\ UNCHANGED << valid, w_recv, written, w_eof >>
       ELSE /\ written' = [written EXCEPT ![w] = None]
            /\ w_eof' = [w_eof EXCEPT ![w] = (string = Eof)]
            /\ IF m = None
               THEN /\ w_pc' = [w_pc EXCEPT ![w] = AfterNothing(first)]
                    /\ ended' = [ended EXCEPT ![w] =
                                   IF AfterNothing(first) = "finish" THEN "timeout" ELSE @]
                    /\ UNCHANGED << valid, w_recv >>
               ELSE /\ valid' = [valid EXCEPT ![w] = ValidAfterRecv(w, first)]
                    /\ w_pc' = [w_pc EXCEPT ![w] = AfterRecv(m)]
                    /\ w_recv' = [w_recv EXCEPT ![w] =
                                   IF AfterRecv(m) = "tovim_lock" THEN m ELSE None]
                    /\ ended' = [ended EXCEPT ![w] =
                                   IF AfterRecv(m) = "dead" THEN "protocol" ELSE @]
    /\ UNCHANGED << srvVars, nWorkers, w_srv, conn, sock, to_thread, from_thread,
                    w_text, edVars, errors, pending, stage, nText,
                    readDoc, nClose, codecVars >>

\* frame.closed: self._vim_lock.acquire() returns
WorkerCloseAcquire(w) ==
    /\ w_pc[w] = "close_lock"
    /\ vim_lock[w_srv[w]] = Free
    /\ vim_lock' = [vim_lock EXCEPT ![w_srv[w]] = Worker(w)]
    /\ w_pc' = [w_pc EXCEPT ![w] = "close_unlock"]
    /\ UNCHANGED << HTTPSERVER, nServers, done, websocks, h_pc, h_sock, nWorkers,
                    w_srv, valid, conn, sock, to_thread, from_thread, w_recv,
                    w_text, edVars, histVars, codecVars >>

\* frame.closed: the echo, vim_lock.release(), self._conn.close(),
\* self._conn = None and break
WorkerCloseRelease(w) ==
    /\ w_pc[w] = "close_unlock"
    /\ vim_lock' = [vim_lock EXCEPT ![w_srv[w]] = Free]
    /\ sock' = [sock EXCEPT ![w] = "closed"]
    /\ conn' = [conn EXCEPT ![w] = "none"]
    /\ w_pc' = [w_pc EXCEPT ![w] = "finish"]
    /\ ended' = [ended EXCEPT ![w] = "close"]
    /\ UNCHANGED << HTTPSERVER, nServers, done, websocks, h_pc, h_sock, nWorkers,
                    w_srv, valid, to_thread, from_thread, w_recv, w_text,
                    edVars, errors, pending, stage, nText, written, readDoc,
                    nClose, codecVars, w_eof >>

\* _update_to_vim: json.loads, then self._vim_lock.acquire() returns
WorkerToVimAcquire(w) ==
    /\ w_pc[w] = "tovim_lock"
    /\ vim_lock[w_srv[w]] = Free
    /\ vim_lock' = [vim_lock EXCEPT ![w_srv[w]] = Worker(w)]
    /\ w_pc' = [w_pc EXCEPT ![w] = "tovim_hook"]
    /\ UNCHANGED << HTTPSERVER, nServers, done, websocks, h_pc, h_sock, nWorkers,
                    w_srv, valid, conn, sock, to_thread, from_thread, w_recv,
                    w_text, edVars, histVars, codecVars >>

\* _update_to_vim: autocmd! removes the TextChanged autocmds
WorkerToVimSuspend(w) ==
    /\ w_pc[w] = "tovim_hook"
    /\ autocmds' = 0
    /\ w_pc' = [w_pc EXCEPT ![w] = "tovim_set"]
    /\ UNCHANGED << srvVars, nWorkers, w_srv, valid, conn, sock, to_thread,
                    from_thread, w_recv, w_text, doc, e_pc, e_i, found, wait,
                    echo, histVars, codecVars >>

\* _update_to_vim: the buffer is assigned request['text'], which raises
\* KeyError when there is none
WorkerToVimSet(w) ==
    /\ w_pc[w] = "tovim_set"
    /\ LET request == JsonLoads(FrameParse(w_recv[w]).payload) IN
       IF request.hasText
       THEN /\ doc' = request.text
            /\ w_pc' = [w_pc EXCEPT ![w] = "tovim_unlock"]
            /\ ended' = ended
       ELSE /\ doc' = doc
            /\ w_pc' = [w_pc EXCEPT ![w] = "dead"]
            /\ ended' = [ended EXCEPT ![w] = "error"]
    /\ w_recv' = [w_recv EXCEPT ![w] = None]
    /\ UNCHANGED << srvVars, nWorkers, w_srv, valid, conn, sock, to_thread,
                    from_thread, w_text, autocmds, e_pc, e_i, found, wait, echo,
                    errors, pending, stage, nText, written, readDoc, nClose,
                    w_eof, codecVars >>

\* _update_to_vim: checktime, the autocmd is installed again, vim_lock.release()
WorkerToVimRelease(w) ==
    /\ w_pc[w] = "tovim_unlock"
    /\ autocmds' = 1
    /\ vim_lock' = [vim_lock EXCEPT ![w_srv[w]] = Free]
    /\ w_pc' = [w_pc EXCEPT ![w] = "push"]
    /\ UNCHANGED << HTTPSERVER, nServers, done, websocks, h_pc, h_sock, nWorkers,
                    w_srv, valid, conn, sock, to_thread, from_thread, w_recv,
                    w_text, doc, e_pc, e_i, found, wait, echo, histVars, codecVars >>


\* mutant of WorkerPush: to_thread is not cleared
WorkerPush_NoClear(w) ==
    /\ w_pc[w] = "push"
    /\ IF to_thread[w]
       THEN /\ stage' = [stage EXCEPT ![w] = "cleared"]
            /\ w_pc' = [w_pc EXCEPT ![w] = "fromvim_lock"]
       ELSE /\ w_pc' = [w_pc EXCEPT ![w] = LoopBottom(w)]
            /\ UNCHANGED stage
    /\ w_eof' = [w_eof EXCEPT ![w] = FALSE]
    /\ UNCHANGED << srvVars, nWorkers, w_srv, valid, conn, sock, to_thread,
                    from_thread, w_recv, w_text, edVars, errors, pending, nText,
                    written, readDoc, nClose, ended, codecVars >>

\* "if self._to_thread.is_set()": when set, self._to_thread.clear(); else the
\* bottom of the pass
WorkerPush(w) ==
    /\ w_pc[w] = "push"
    /\ IF to_thread[w]
       THEN /\ to_thread' = [to_thread EXCEPT ![w] = FALSE]
            /\ stage' = [stage EXCEPT ![w] = "cleared"]
            /\ w_pc' = [w_pc EXCEPT ![w] = "fromvim_lock"]
       ELSE /\ w_pc' = [w_pc EXCEPT ![w] = LoopBottom(w)]
            /\ UNCHANGED << to_thread, stage >>
    /\ w_eof' = [w_eof EXCEPT ![w] = FALSE]
    /\ UNCHANGED << srvVars, nWorkers, w_srv, valid, conn, sock, from_thread,
                    w_recv, w_text, edVars, errors, pending, nText, written,
                    readDoc, nClose, ended, codecVars >>

\* _update_from_vim: self._vim_lock.acquire() returns
WorkerFromVimAcquire(w) ==
    /\ w_pc[w] = "fromvim_lock"
    /\ vim_lock[w_srv[w]] = Free
    /\ vim_lock' = [vim_lock EXCEPT ![w_srv[w]] = Worker(w)]
    /\ w_pc' = [w_pc EXCEPT ![w] = "fromvim_read"]
    /\ UNCHANGED << HTTPSERVER, nServers, done, websocks, h_pc, h_sock, nWorkers,
                    w_srv, valid, conn, sock, to_thread, from_thread, w_recv,
                    w_text, edVars, histVars, codecVars >>


\* mutant of WorkerFromVimRead: the buffer is not read, text keeps its old value
WorkerFromVimRead_Stale(w) ==
    /\ w_pc[w] = "fromvim_read"
    /\ readDoc' = [readDoc EXCEPT ![w] = doc]
    /\ vim_lock' = [vim_lock EXCEPT ![w_srv[w]] = Free]
    /\ stage' = [stage EXCEPT ![w] = "read"]
    /\ w_pc' = [w_pc EXCEPT ![w] = "send"]
    /\ UNCHANGED << HTTPSERVER, nServers, done, websocks, h_pc, h_sock, nWorkers,
                    w_srv, valid, conn, sock, to_thread, from_thread, w_recv,
                    w_text, edVars, errors, pending, nText, written, nClose, ended,
                    codecVars, w_eof >>

\* _update_from_vim: lines = vim.current.buffer[:], vim_lock.release() and
\* text = '\n'.join(lines)
WorkerFromVimRead(w) ==
    /\ w_pc[w] = "fromvim_read"
    /\ w_text' = [w_text EXCEPT ![w] = doc]
    /\ readDoc' = [readDoc EXCEPT ![w] = doc]
    /\ vim_lock' = [vim_lock EXCEPT ![w_srv[w]] = Free]
    /\ stage' = [stage EXCEPT ![w] = "read"]
    /\ w_pc' = [w_pc EXCEPT ![w] = "send"]
    /\ UNCHANGED << HTTPSERVER, nServers, done, websocks, h_pc, h_sock, nWorkers,
                    w_srv, valid, conn, sock, to_thread, from_thread, w_recv,
                    edVars, errors, pending, nText, written, nClose, ended,
                    codecVars, w_eof >>

\* the frame _send_text builds: Frame(fin=1, opcode=Frame.TEXT, mask=0, payload=...)
TextFrame(text) == FrameSetData(1, TEXT, JsonDumps(text), 0)

\* _send_text: self._conn.sendall(frame.data); text is not used again
WorkerSendText(w) ==
    /\ w_pc[w] = "send"
    /\ written' = [written EXCEPT ![w] = TextFrame(w_text[w]).data]
    /\ nText' = [nText EXCEPT ![w] = @ + 1]
    /\ stage' = [stage EXCEPT ![w] = "sent"]
    /\ w_text' = [w_text EXCEPT ![w] = 0]
    /\ w_pc' = [w_pc EXCEPT ![w] = "signal"]
    /\ UNCHANGED << srvVars, nWorkers, w_srv, valid, conn, sock, to_thread,
                    from_thread, w_recv, edVars, errors, pending, readDoc,
                    nClose, ended, codecVars, w_eof >>

\* self._from_thread.set(), then the bottom of the pass
WorkerSignal(w) ==
    /\ w_pc[w] = "signal"
    /\ from_thread' = [from_thread EXCEPT ![w] = TRUE]
    /\ stage' = [stage EXCEPT ![w] = "done"]
    /\ w_pc' = [w_pc EXCEPT ![w] = LoopBottom(w)]
    /\ UNCHANGED << srvVars, nWorkers, w_srv, valid, conn, sock, to_thread,
                    w_recv, w_text, edVars, errors, pending, nText, written,
                    readDoc, nClose, ended, codecVars, w_eof >>

\* the frame serve_forever sends last: Frame(opcode=Frame.CLOSE)
CloseFrame == FrameSetData(1, CLOSE, << >>, 0)

\* after the loop: if self._conn is not None, the CLOSE frame is sent and the
\* socket closed; the thread ends
WorkerFinish(w) ==
    /\ w_pc[w] = "finish"
    /\ IF conn[w] # "none"
       THEN /\ written' = [written EXCEPT ![w] = CloseFrame.data]
            /\ nClose' = [nClose EXCEPT ![w] = @ + 1]
            /\ sock' = [sock EXCEPT ![w] = "closed"]
            /\ conn' = [conn EXCEPT ![w] = "none"]
       ELSE UNCHANGED << written, nClose, sock, conn >>
    /\ w_pc' = [w_pc EXCEPT ![w] = "done"]
    /\ w_eof' = [w_eof EXCEPT ![w] = FALSE]
    /\ UNCHANGED << srvVars, nWorkers, w_srv, valid, to_thread, from_thread,
                    w_recv, w_text, edVars, errors, pending, stage, nText, readDoc,
                    ended, codecVars >>

EditorStep ==
    \/ GhostStart
    \/ GhostStartAcquire
    \/ GhostStartRelease
    \/ GhostStop
    \/ GhostStopAcquire
    \/ GhostStopRelease
    \/ GhostStopShutdown
    \/ GhostNotify
    \/ \E t \in Texts : UserEdit(t)
    \/ GhostNotifyFor
    \/ GhostNotifyWait
    \/ EditorReturn

HttpStep(g) ==
    \/ HttpRequest(g)
    \/ HttpLogAcquire(g)
    \/ HttpStartWebsocket(g)
    \/ HttpAppend(g)

\* the steps of worker w that return when the peer acts
WorkerPeerStep(w) ==
    \/ WorkerAccept(w)
    \/ \E hasKey \in BOOLEAN : WorkerHandshake(w, hasKey)

\* the steps of worker w that wait for no peer
WorkerStep(w) ==
    \/ \E string \in PeerMessages \cup {None, Eof} : WorkerIterate(w, string)
    \/ WorkerCloseAcquire(w)
    \/ WorkerCloseRelease(w)
    \/ WorkerToVimAcquire(w)
    \/ WorkerToVimSuspend(w)
    \/ WorkerToVimSet(w)
    \/ WorkerToVimRelease(w)
    \/ WorkerPush(w)
    \/ WorkerFromVimAcquire(w)
    \/ WorkerFromVimRead(w)
    \/ WorkerSendText(w)
    \/ WorkerSignal(w)
    \/ WorkerFinish(w)

Next ==
    \/ EditorStep
    \/ \E g \in Servers : HttpStep(g)
    \/ \E w \in Workers : WorkerPeerStep(w)
    \/ \E w \in Workers : WorkerStep(w)

Spec == Init /\ [][Next]_vars

\* the steps of an entry point the editor is already running
EditorRunning ==
    \/ GhostStartAcquire
    \/ GhostStartRelease
    \/ GhostStopAcquire
    \/ GhostStopRelease
    \/ GhostStopShutdown
    \/ GhostNotifyFor
    \/ GhostNotifyWait
    \/ EditorReturn

\* the steps of a GET the discovery thread is already handling
HttpRunning(g) ==
    \/ HttpLogAcquire(g)
    \/ HttpStartWebsocket(g)
    \/ HttpAppend(g)

\* Every thread that can run does run.  Nothing is assumed of the user or of
\* the peer: no new command, no GET, no connection and no handshake request
\* has to come.
FairSpec ==
    /\ Init
    /\ [][Next]_vars
    /\ WF_vars(EditorRunning)
    /\ \A g \in Servers : WF_vars(HttpRunning(g))
    /\ \A w \in Workers : WF_vars(WorkerStep(w))

\* the codec's run
CodecNext ==
    \/ CodecDecode /\ UNCHANGED << srvVars, wrkVars, edVars, histVars >>
    \/ CodecEncode /\ UNCHANGED << srvVars, wrkVars, edVars, histVars >>
    \/ \E m \in MaskArgs :
          CodecEncodeMasked(m) /\ UNCHANGED << srvVars, wrkVars, edVars, histVars >>

CodecSpecInit == doc = 0 /\ ServerInit /\ CodecInit

SpecCodec == CodecSpecInit /\ [][CodecNext]_vars

(***************************************************************************)
(* Properties.                                                             *)
(***************************************************************************)

Range(seq) == { seq[i] : i \in 1..Len(seq) }

InNotify == e_pc \in {"notify_for", "notify_wait", "notify_end"}

\* the steps of one push, in the order they may follow each other
PushOrder ==
    { << "idle", "requested" >>, << "requested", "cleared" >>,
      << "cleared", "read" >>, << "read", "sent" >>, << "sent", "done" >>,
      << "done", "idle" >> }

\* C1: GhostNotify sets to_thread of exactly the registry entries it finds
\* valid (and of no other worker), it reaches its end only when every worker
\* it signaled has written one TEXT frame and set from_thread, and in a worker
\* a push goes: to_thread cleared, document read while holding vim_lock, frame
\* sent, from_thread set.
C1_NotifyHandshake ==
    [][ /\ (e_pc = "notify_for" /\ e_i' = e_i + 1) =>
              LET ws == websocks[HTTPSERVER][e_i] IN
              IF valid[ws]
              THEN to_thread'[ws] /\ wait' = Append(wait, ws)
              ELSE to_thread'[ws] = to_thread[ws] /\ wait' = wait
        /\ \A w \in Workers :
              (to_thread'[w] /\ ~to_thread[w]) =>
                  /\ e_pc = "notify_for"
                  /\ e_i <= Len(websocks[HTTPSERVER])
                  /\ websocks[HTTPSERVER][e_i] = w
                  /\ valid[w]
        /\ \A w \in Workers :
              stage'[w] # stage[w] => << stage[w], stage'[w] >> \in PushOrder
        /\ \A w \in Workers :
              (stage[w] = "cleared" /\ stage'[w] = "read") =>
                  vim_lock[w_srv[w]] = Worker(w) /\ readDoc'[w] = doc
        /\ \A w \in Workers :
              (stage[w] = "read" /\ stage'[w] = "sent") =>
                  nText'[w] = nText[w] + 1 /\ ~from_thread[w]
        /\ (e_pc = "notify_wait" /\ e_pc' = "notify_end") =>
              \A i \in 1..Len(wait) :
                  /\ nText[wait[i]] = 1
                  /\ stage[wait[i]] = "idle"
      ]_vars

\* a call is about to end that signaled one of two registered workers, which
\* has sent its frame
C1_Witness ==
    /\ e_pc = "notify_wait"
    /\ e_i > Len(wait)
    /\ Len(wait) = 1
    /\ Len(websocks[HTTPSERVER]) = 2
    /\ nText[wait[1]] = 1

\* C2: a worker has at most one push request that GhostNotify has raised and
\* not yet completed; to_thread is only set while that request is untouched,
\* from_thread only when its push is finished, and neither Event is ever found
\* set by GhostNotify.
C2_OnePushOutstanding ==
    /\ \A w \in Workers :
          /\ pending[w] \in {0, 1}
          /\ (pending[w] = 0) <=> (stage[w] = "idle")
          /\ to_thread[w] => stage[w] = "requested"
          /\ from_thread[w] => stage[w] = "done"
          /\ pending[w] = 1 => (e_pc \in {"notify_for", "notify_wait"} /\ w \in Range(wait))
    /\ errors \cap {"To event is already set", "From event is already set"} = {}

\* a worker that has completed a push is asked for the next one
C2_Witness ==
    \E w \in Workers :
        /\ stage[w] = "requested"
        /\ w_pc[w] = "loop"
        /\ written[w] \in { TextFrame(t).data : t \in Texts }

C4_TimedOutNeverSignaled ==
    \A w \in Workers :
        ended[w] = "timeout" =>
            /\ ~valid[w]
            /\ w_pc[w] \in {"finish", "done"}
            /\ ~to_thread[w]
            /\ stage[w] = "idle"
            /\ w \notin Range(wait)
            /\ nText[w] = 0

\* GhostNotify has gone through a registry that holds a timed-out worker and
\* signaled only the other one
C4_Witness ==
    \E w \in Workers :
        /\ ended[w] = "timeout"
        /\ w_pc[w] = "done"
        /\ e_pc = "notify_wait"
        /\ w \in Range(websocks[HTTPSERVER])
        /\ found = 1

\* the workers inside _update_to_vim's or _update_from_vim's access to the buffer
InDocumentSection ==
    { w \in Workers : w_pc[w] \in {"tovim_hook", "tovim_set", "tovim_unlock", "fromvim_read"} }

\* C5: at most one worker at a time is inside a critical section that reads
\* or replaces the document.
C5_MutualExclusion == Cardinality(InDocumentSection) <= 1

\* C6: a worker that accepted a connection and left its loop by the
\* first-receive timeout, a received CLOSE frame or the shutdown signal has,
\* when its thread ends, sent one CLOSE frame and closed the socket.
C6_CloseFrameOnExit ==
    \A w \in Workers :
        (w_pc[w] = "done" /\ ended[w] \in {"timeout", "close", "shutdown"}) =>
            nClose[w] = 1 /\ sock[w] = "closed"

\* the workers whose serve_forever loop is running
Active == { w \in Workers : w_pc[w] = "loop" /\ valid[w] }

\* worker w has stopped on a CLOSE frame and another worker of the registry
\* is active
ClosedBesideActive(w) ==
    /\ ended[w] = "close"
    /\ w_pc[w] = "done"
    /\ (Active \cap Range(websocks[HTTPSERVER])) \ {w} # {}

\* C7: a CLOSE frame received by one worker stops that worker only, and the
\* other active workers keep being served by later NotifyChanged calls: such a
\* call does not signal and wait for the stopped worker, which will never
\* answer, so it returns once the active workers have pushed.
C7_CloseStopsOnlyThatWorker ==
    [][ \A w \in Workers :
            (e_pc = "notify_for" /\ w \notin Range(wait) /\ w \in Range(wait'))
                => ~ ClosedBesideActive(w) ]_vars

\* the discovery servers that exist
Running == { g \in Servers : h_pc[g] \notin {"unborn", "stopped"} }

StartCalled == e_pc = "idle" /\ e_pc' \in {"start_lock", "start_return"}

StopCalled == e_pc = "idle" /\ e_pc' \in {"stop_lock", "stop_return"}

\* C8: GhostStart with a server running and GhostStop with none change nothing
\* but the message they surface, and at most one discovery server exists.
C8_StartStopIdempotent ==
    [][ /\ (StartCalled /\ HTTPSERVER # 0) =>
              /\ echo' = "Server is already running"
              /\ e_pc' = "start_return"
              /\ UNCHANGED << srvVars, wrkVars, doc, autocmds, histVars >>
        /\ (StopCalled /\ HTTPSERVER = 0) =>
              /\ echo' = "Server is not running"
              /\ e_pc' = "stop_return"
              /\ UNCHANGED << srvVars, wrkVars, doc, autocmds, histVars >>
        /\ Cardinality(Running') <= 1
      ]_vars

C8_Witness ==
    /\ e_pc = "start_return"
    /\ echo = "Server is already running"
    /\ nServers >= 2
    /\ nWorkers >= 1

\* the threads of the workers of server g have ended
Finished(g) ==
    \A w \in Workers : w_srv[w] = g => w_pc[w] \in {"done", "dead"}

\* C9: once GhostStop has set done, every worker thread of that server
\* eventually ends.
C9_WorkersFinish == \A g \in Servers : done[g] ~> Finished(g)

\* C10: a well-formed unmasked TEXT frame is decoded without an exception into
\* its opcode and payload, and encoding these gives a frame with that opcode and
\* payload.
C10_RoundTrip ==
    (c_pc # "off" /\ c_src.opcode = TEXT /\ c_src.mask = 0) =>
        /\ c_pc # "raised"
        /\ c_pc \in {"decoded", "encoded"} =>
              /\ c_frame.opcode = TEXT
              /\ c_frame.payload = c_payload
        /\ c_pc = "encoded" =>
              /\ c_out.raised = ""
              /\ c_out.data = PeerFrame(1, TEXT, 0, c_src.key, c_payload)

\* C11: every GhostNotify call that has started returns to the editor.
C11_NotifyReturns == (e_pc = "notify_for") ~> (e_pc = "idle")

\* where a worker is between vim_lock.acquire() and vim_lock.release()
WorkerSections == {"close_unlock", "tovim_hook", "tovim_set", "tovim_unlock", "fromvim_read"}

\* C12: the lock is held only by a thread that is between its acquire and its
\* release around an echo, an autocmd command or an access to the buffer; a
\* thread that is at a socket accept, receive, send or close holds no lock.
C12_LockOnlyForAccess ==
    \A g \in Servers :
        /\ vim_lock[g] = Editor => e_pc \in {"start_unlock", "stop_unlock"}
        /\ vim_lock[g] = Http(g) => h_pc[g] = "log_unlock"
        /\ \A w \in Workers : vim_lock[g] = Worker(w) => w_pc[w] \in WorkerSections

\* C13: a worker whose thread has ended holds no lock.
C13_EndedWorkerHoldsNoLock ==
    \A g \in Servers : \A w \in Workers :
        vim_lock[g] = Worker(w) => w_pc[w] \notin {"done", "dead"}

\* C14: when a worker assigns the buffer from an inbound TEXT frame it holds
\* the lock of its server and no TextChanged autocmd is installed, so the
\* assignment runs no GhostNotify.
C14_WriteWithHookSuspended ==
    \A w \in Workers :
        w_pc[w] = "tovim_set" =>
            /\ vim_lock[w_srv[w]] = Worker(w)
            /\ autocmds = 0

\* the GhostNotify call in progress is in from_thread.wait() of worker w
AwaitedBy(w) ==
    /\ e_pc = "notify_wait"
    /\ e_i <= Len(wait)
    /\ wait[e_i] = w
    /\ ~ from_thread[w]

\* C15: a frame that Frame(data=...) rejects ends the worker that received it
\* with an exception, its connection is closed, and no GhostNotify call waits
\* for that worker.
C15_ProtocolErrorStaysLocal ==
    \A w \in Workers :
        ended[w] = "protocol" =>
            /\ w_pc[w] = "dead"
            /\ sock[w] = "closed"
            /\ ~ AwaitedBy(w)

\* C16: an active worker whose poll meets end-of-stream leaves its loop to close
\* the connection.
C16_EndOfStreamEndsWorker ==
    \A w \in Workers : (w_eof[w] /\ valid[w]) => w_pc[w] = "finish"

\* C17: after an upgrade request without Sec-WebSocket-Key the worker has
\* written nothing, is not valid, handles no frame, and its connection is
\* closed.
C17_HandshakeWithoutKey ==
    \A w \in Workers :
        ended[w] = "handshake" =>
            /\ w_pc[w] = "dead"
            /\ written[w] = None
            /\ ~ valid[w]
            /\ sock[w] = "closed"

\* worker w has reached the end of its lifecycle: its thread has ended or its
\* connection is closed
Closed(w) == w_pc[w] \in {"done", "dead"} \/ sock[w] = "closed"

\* C18: valid only goes from False to True, and only at a receive of the first
\* pass; a worker that is Closed stays Closed, takes no step but the end of its
\* thread, and neither accepts, sends nor receives again.
C18_WorkerLifecycle ==
    [][ \A w \in Workers :
            /\ valid[w] => valid'[w]
            /\ (~ valid[w] /\ valid'[w]) =>
                  /\ w_pc[w] = "first"
                  /\ w_pc'[w] \in {"tovim_lock", "close_lock", "dead"}
            /\ Closed(w) =>
                  /\ Closed(w)'
                  /\ w_pc'[w] \in {w_pc[w], "done"}
                  /\ w_pc[w] \in {"done", "dead"} => w_pc'[w] = w_pc[w]
                  /\ sock'[w] = sock[w]
                  /\ conn'[w] = conn[w]
                  /\ w_recv'[w] = w_recv[w]
                  /\ written'[w] = written[w]
                  /\ nText'[w] <= nText[w]
                  /\ nClose'[w] = nClose[w]
      ]_vars

C18_Witness ==
    \E w \in Workers :
        /\ valid[w]
        /\ w_pc[w] = "done"
        /\ sock[w] = "closed"
        /\ to_thread[w]
        /\ nText[w] = 0

\* the workers do_GET of server g has built
Spawned(g) == { w \in Workers : w_srv[w] = g }

\* the GETs server g has handled to the end
Handled(g) == Cardinality(Spawned(g)) - (IF h_pc[g] = "append" THEN 1 ELSE 0)

LenField(n) == IF n < 126 THEN n ELSE IF n < 65536 THEN 126 ELSE 127

\* C20: a TEXT or CLOSE frame whose payload has n octets, in the length form
\* n requires (7-bit below 126, 126 and 2 octets below 65536, 127 and 8 octets
\* from there), is decoded with payload_len = n, and encoding the decoded
\* payload writes the same length field and a length that decodes to n.
C20_DecodedLength ==
    (c_pc \in {"decoded", "raised", "encoded"} /\ c_src.opcode \in {TEXT, CLOSE}) =>
        /\ c_in[2] % 128 = LenField(c_src.len)
        /\ c_frame.raised = ""
        /\ c_frame.payload_len = c_src.len
        /\ c_pc = "encoded" =>
              /\ c_out.data[2] % 128 = LenField(c_src.len)
              /\ FrameParse(c_out.data).payload_len = c_frame.payload_len

\* frame = Frame(...) followed by self._conn.sendall(frame.data): the octets
\* that reach the socket; the statement after a constructor that raised is not
\* executed
SendAll(frame) == IF frame.raised = "" THEN frame.data ELSE None

\* the mask bit of the octets of a frame
MaskBit(data) == (data[2] \div 128) % 2

\* C21: every frame a worker has written, and every TEXT and CLOSE frame the
\* server builds, has its mask bit clear; an encode with the mask argument set
\* raises and nothing of it reaches the socket, and an encode that does not
\* raise gives a frame with the mask bit clear.
C21_OnlyUnmaskedFrames ==
    /\ \A w \in Workers :
          written[w] \notin {None, Http101} => MaskBit(written[w]) = 0
    /\ \A t \in Texts :
          /\ TextFrame(t).raised = ""
          /\ MaskBit(SendAll(TextFrame(t))) = 0
    /\ CloseFrame.raised = ""
    /\ MaskBit(SendAll(CloseFrame)) = 0
    /\ c_pc = "masked" =>
          /\ c_out.raised = "Exception"
          /\ SendAll(c_out) = None
    /\ c_pc = "encoded" =>
          /\ c_out.raised = ""
          /\ MaskBit(SendAll(c_out)) = 0

C21_Witness ==
    /\ c_pc = "masked"
    /\ c_frame.opcode = TEXT
    /\ c_frame.payload_len = 126
    /\ c_out.raised = "Exception"
    /\ c_out.mask

====
